---------------------------- MODULE Spec2Model ----------------------------
(***************************************************************************)
(* Model of evidently/analyzers/data_profile_analyzer.py: the per-column   *)
(* statistics (_get_features_stats), the dataset profiler                  *)
(* (_calculate_stats), the analyzer entry point with its categorical       *)
(* drift counts (calculate) and the two accessors of DataProfileStats      *)
(* (__getitem__, get_all_features).                                        *)
(*                                                                         *)
(* Values of a column are integers: NaN is the missing marker (NaN, None,  *)
(* NaT), 1..n are ordinary values (numbers, category labels, timestamps),  *)
(* PosInf and NegInf are the two infinities of a numeric column.           *)
(* An Optional field is a sequence of length at most one: None is <<>>,    *)
(* Some(v) is <<v>>.  Fractions and the rounded numeric summaries are kept *)
(* in hundredths (0.25 is 25), which is exactly what np.round(x, 2) keeps. *)
(***************************************************************************)
EXTENDS Integers, Sequences, FiniteSets, TLC

VARIABLES
    pc,               \* position of the run: "input", "done"
    feature,          \* _get_features_stats: the column (pd.Series)
    feature_type,     \* _get_features_stats: "num", "cat", "datetime"
    stats,            \* _get_features_stats: outcome (record or raised error)
    reference_data,   \* calculate: reference DataFrame, column name -> values
    current_data,     \* calculate: Some(DataFrame) or None
    nan_object,       \* identity of the missing-marker object .unique() yields
    columns,          \* calculate: DatasetColumns (process_columns' result)
    task,             \* calculate: column_mapping.task
    results,          \* calculate: None or Some(DataProfileAnalyzerResults)
    profile,          \* accessors: a DataProfileStats
    item,             \* accessors: the name looked up
    got,              \* accessors: outcome of __getitem__
    all_features      \* accessors: None or Some(get_all_features())

vars == <<pc, feature, feature_type, stats, reference_data, current_data,
          nan_object, columns, task, results, profile, item, got, all_features>>

(***************************************************************************)
(* Bounds of the checked instances.                                        *)
(***************************************************************************)
MaxLen == 4          \* rows of the column given to _get_features_stats
MaxValue == 2        \* ordinary values 1..MaxValue of that column
DriftRows == 3       \* rows of the datasets of the drift instances
DriftValues == 3     \* category labels 1..DriftValues of those datasets
ProfileRows == 1     \* rows of the datasets of the profiler instances

(***************************************************************************)
(* Values and Optional.                                                    *)
(***************************************************************************)
None == <<>>
Some(v) == <<v>>

NaN == 0
PosInf == MaxValue + DriftValues + 1
NegInf == 0 - PosInf

isnull(v) == v = NaN
isinf(v) == v = PosInf \/ v = NegInf

\* A value of a Union[Number, str] field: as it is in the column, or cast by str().
Val(v) == <<"val", v>>
str(v) == <<"str", v>>
\* pd.isnull of such a field: str(NaT) is the text "NaT", which is not null.
pd_isnull(x) == x[1] = "val" /\ isnull(x[2])

Range(s) == {s[i] : i \in DOMAIN s}

RECURSIVE SeqSum(_)
SeqSum(s) == IF s = <<>> THEN 0 ELSE Head(s) + SeqSum(Tail(s))

SeqsUpTo(S, n) == UNION {[1..k -> S] : k \in 0..n}

\* np.round(num / den, 2) in hundredths, den > 0, num >= 0: round half to even.
Round2(num, den) ==
    LET q == (100 * num) \div den
        r == (100 * num) % den
    IN  IF 2 * r < den THEN q
        ELSE IF 2 * r > den THEN q + 1
        ELSE IF q % 2 = 0 THEN q ELSE q + 1


(***************************************************************************)
(* pandas primitives used by _get_features_stats.                          *)
(***************************************************************************)
\* The non-missing values of a column, in order.
dropna(s) == SelectSeq(s, LAMBDA v : ~isnull(v))

\* Series.unique(): the distinct values in order of first appearance (the
\* missing marker included, once).
RECURSIVE unique_from(_, _)
unique_from(s, acc) ==
    IF s = <<>> THEN acc
    ELSE unique_from(Tail(s),
                     IF Head(s) \in Range(acc) THEN acc ELSE Append(acc, Head(s)))

unique_values(s) == unique_from(s, <<>>)

occurrences(s, v) == Cardinality({i \in DOMAIN s : s[i] = v})

\* Series.value_counts(dropna=False): <<value, frequency>> entries by
\* descending frequency; entries of equal frequency keep the order of first
\* appearance.  (Every other order of tied entries is the first-appearance
\* order of a permutation of the column, and the instances hold every
\* permutation.)
RECURSIVE sort_counts(_, _, _)
sort_counts(s, todo, sorted) ==
    IF todo = <<>> THEN sorted
    ELSE LET v == Head(todo)
             c == occurrences(s, v)
             k == Cardinality({i \in DOMAIN sorted : sorted[i][2] >= c})
         IN  sort_counts(s, Tail(todo),
                         SubSeq(sorted, 1, k) \o <<<<v, c>>>>
                             \o SubSeq(sorted, k + 1, Len(sorted)))

value_counts(s) == sort_counts(s, unique_values(s), <<>>)

\* Series.nunique(): the number of distinct non-missing values.
nunique(s) == Cardinality(Range(dropna(s)))

\* Series.max() / Series.min(): extrema of the non-missing values.
\* (NaN when there is none.)
series_max(s) ==
    IF dropna(s) = <<>> THEN NaN
    ELSE CHOOSE m \in Range(dropna(s)) : \A v \in Range(dropna(s)) : v <= m

series_min(s) ==
    IF dropna(s) = <<>> THEN NaN
    ELSE CHOOSE m \in Range(dropna(s)) : \A v \in Range(dropna(s)) : m <= v

RECURSIVE sort_asc(_)
sort_asc(s) ==
    IF s = <<>> THEN <<>>
    ELSE LET rest == sort_asc(Tail(s))
             k == Cardinality({i \in DOMAIN rest : rest[i] <= Head(s)})
         IN  SubSeq(rest, 1, k) \o <<Head(s)>> \o SubSeq(rest, k + 1, Len(rest))

\* A numeric summary: a finite number in hundredths, or a non-finite float.
Num(h) == <<"num", h>>
NonFinite(what) == <<what, 0>>

\* describe()["mean"], rounded: the mean of the non-missing values.
describe_mean(s) ==
    LET vals == dropna(s)
    IN  IF PosInf \in Range(vals) /\ NegInf \in Range(vals) THEN NonFinite("nan")
        ELSE IF PosInf \in Range(vals) THEN NonFinite("inf")
        ELSE IF NegInf \in Range(vals) THEN NonFinite("-inf")
        ELSE Num(Round2(SeqSum(vals), Len(vals)))

\* describe()["std"]: the sample standard deviation (ddof = 1) of the
\* non-missing values, rounded; NaN for fewer than two values and for a
\* column that holds an infinity.
std_isnan(s) == Len(dropna(s)) < 2 \/ \E v \in Range(dropna(s)) : isinf(v)

describe_std(s) ==
    LET vals == dropna(s)
        n == Len(vals)
        sq == [i \in DOMAIN vals |-> vals[i] * vals[i]]
        S == n * SeqSum(sq) - SeqSum(vals) * SeqSum(vals)
        D == n * (n - 1)
    IN  Num(CHOOSE k \in 0..(100 * PosInf) :
               /\ (k = 0 \/ (2 * k - 1) * (2 * k - 1) * D <= 40000 * S)
               /\ 40000 * S < (2 * k + 1) * (2 * k + 1) * D)

\* describe()["25%" | "50%" | "75%"]: the quartile q (1, 2, 3) of the
\* non-missing values by linear interpolation, exact in hundredths.  When
\* the column holds an infinity the interpolation meets inf - x or inf * 0
\* and the float it yields (finite, infinite or nan) depends on the numpy
\* release; the field is then only known to hold a float.
describe_percentile(s, q) ==
    LET vals == sort_asc(dropna(s))
        p == (Len(vals) - 1) * q
        lo == (p \div 4) + 1
        w == p % 4
        hi == IF w = 0 THEN lo ELSE lo + 1
    IN  IF \E v \in Range(vals) : isinf(v) THEN NonFinite("float")
        ELSE Num(100 * vals[lo] + 25 * w * (vals[hi] - vals[lo]))

(***************************************************************************)
(* FeaturesProfileStats and _get_features_stats.                           *)
(***************************************************************************)
FeatureTypes == {"num", "cat", "datetime"}

\* FeaturesProfileStats(feature_type=feature_type): the dataclass defaults.
FeaturesProfileStats(ft) ==
    [feature_type |-> ft,
     count |-> 0,
     infinite_count |-> None,
     infinite_fraction |-> None,
     missing_count |-> None,
     missing_fraction |-> None,
     unique |-> None,
     unique_fraction |-> None,
     percentile_25 |-> None,
     percentile_50 |-> None,
     percentile_75 |-> None,
     max |-> None,
     min |-> None,
     mean |-> None,
     most_common_value |-> None,
     most_common_value_fraction |-> None,
     std |-> None,
     most_common_not_null_value |-> None,
     most_common_not_null_value_fraction |-> None,
     new_in_current_values_count |-> None,
     unused_in_current_values_count |-> None]

no_data_mut(all_values_count) == ~(all_values_count > 1)
\* "if not all_values_count > 0: return result"
no_data(all_values_count) == ~(all_values_count > 0)

\* int(feature.isnull().sum())
missing_count_of(s) == Cardinality({i \in DOMAIN s : isnull(s[i])})

describe_count_mut(s) == Len(SelectSeq(s, LAMBDA v : ~isnull(v) /\ ~isinf(v)))
\* int(common_stats["count"]): describe() counts the non-missing values.
describe_count(s) == Len(dropna(s))

\* int(np.sum(np.isinf(feature)))
infinite_count_of(s) == Cardinality({i \in DOMAIN s : isinf(s[i])})

has_values_mut(count) == count >= 0
\* "if result.count > 0:"
has_values(count) == count > 0

\* value_counts.index[0], cast to str for a datetime feature.
most_common_value_of(table, ft) ==
    IF ft = "datetime" THEN str(table[1][1]) ELSE Val(table[1][1])

\* "if pd.isnull(result.most_common_value):", evaluated on the field as it
\* stands after the datetime cast.
reads_second_entry(r) == pd_isnull(r.most_common_value[1])

\* The fields every feature type gets once the column has rows.
WithCounts(r, s, ft) ==
    LET all_values_count == Len(s)
        r1 == [r EXCEPT !.missing_count = Some(missing_count_of(s)),
                        !.count = describe_count(s)]
        r2 == IF ft = "num"
              THEN [r1 EXCEPT
                      !.infinite_count = Some(infinite_count_of(s)),
                      !.infinite_fraction =
                          Some(Round2(infinite_count_of(s), all_values_count))]
              ELSE r1
    IN  [r2 EXCEPT !.missing_fraction =
                       Some(Round2(missing_count_of(s), all_values_count))]

\* Lines 248-256: the most common value and the unique counts.
WithMostCommon(r, s, ft) ==
    LET table == value_counts(s)
    IN  [r EXCEPT !.most_common_value = Some(most_common_value_of(table, ft)),
                  !.most_common_value_fraction = Some(Round2(table[1][2], Len(s))),
                  !.unique = Some(nunique(s)),
                  !.unique_fraction = Some(Round2(nunique(s), Len(s)))]

\* Lines 259-260: value_counts.index[1] and value_counts.iloc[1].
WithNotNull(r, s) ==
    LET table == value_counts(s)
    IN  [r EXCEPT !.most_common_not_null_value = Some(Val(table[2][1])),
                  !.most_common_not_null_value_fraction =
                      Some(Round2(table[2][2], Len(s)))]

\* Lines 262-281: the fields of a numeric and of a datetime feature.
WithTypeFields(r, s, ft) ==
    IF ft = "num"
    THEN [r EXCEPT !.max = Some(Val(series_max(s))),
                   !.min = Some(Val(series_min(s))),
                   !.std = IF std_isnan(s) THEN None ELSE Some(describe_std(s)),
                   !.mean = Some(describe_mean(s)),
                   !.percentile_25 = Some(describe_percentile(s, 1)),
                   !.percentile_50 = Some(describe_percentile(s, 2)),
                   !.percentile_75 = Some(describe_percentile(s, 3))]
    ELSE IF ft = "datetime"
    THEN [r EXCEPT !.max = Some(str(series_max(s))),
                   !.min = Some(str(series_min(s)))]
    ELSE r

Returned(r) == [raised |-> "", value |-> r]
Raised(error, r) == [raised |-> error, value |-> r]

\* _get_features_stats(feature, feature_type): the record returned, or the
\* IndexError of reading entry 1 of a frequency table that has one entry.
get_features_stats(s, ft) ==
    LET result == FeaturesProfileStats(ft)
    IN  IF no_data(Len(s)) THEN Returned(result)
        ELSE LET counted == WithCounts(result, s, ft)
             IN  IF ~has_values(counted.count) THEN Returned(counted)
                 ELSE LET common == WithMostCommon(counted, s, ft)
                      IN  IF reads_second_entry(common)
                          THEN IF Len(value_counts(s)) < 2
                               THEN Raised("IndexError", common)
                               ELSE Returned(WithTypeFields(WithNotNull(common, s), s, ft))
                          ELSE Returned(WithTypeFields(common, s, ft))

(***************************************************************************)
(* DataProfileStats and _calculate_stats.  A DataFrame is a function from  *)
(* its column names to the columns; a bucket is None or Some(dict), a dict *)
(* being a function from feature names to records.                         *)
(***************************************************************************)
DataProfileStats ==
    [num_features_stats |-> None, cat_features_stats |-> None,
     datetime_features_stats |-> None, target_stats |-> None]

\* Lines 155-159: the datetime features, plus the date column if declared.
date_list(cols) ==
    IF cols.utility_columns.date # None
    THEN cols.datetime_feature_names \o <<cols.utility_columns.date[1]>>
    ELSE cols.datetime_feature_names

\* {name: _get_features_stats(dataset[name], ft) for name in names}
stats_dict(dataset, names, ft) ==
    [name \in Range(names) |-> get_features_stats(dataset[name], ft).value]

target_feature_type_mut(t) == IF t = Some("regression") THEN "num" ELSE "cat"
\* Lines 170-174: categorical for a classification task, numeric otherwise.
target_feature_type(t) == IF t = Some("classification") THEN "cat" ELSE "num"

\* The calls of _get_features_stats that _calculate_stats makes.
stats_calls(dataset, cols, t) ==
    {<<name, "num">> : name \in Range(cols.num_feature_names)}
        \cup {<<name, "cat">> : name \in Range(cols.cat_feature_names)}
        \cup {<<name, "datetime">> : name \in Range(date_list(cols))}
        \cup (IF cols.utility_columns.target # None
                 /\ cols.utility_columns.target[1] \in DOMAIN dataset
              THEN {<<cols.utility_columns.target[1], target_feature_type(t)>>}
              ELSE {})

\* _calculate_stats(dataset, columns, task): the profile, or the KeyError of
\* indexing the dataset by a feature column it does not have, or the error
\* of a _get_features_stats call.
calculate_stats(dataset, cols, t) ==
    LET target_name == cols.utility_columns.target
        features == Range(cols.num_feature_names) \cup Range(cols.cat_feature_names)
                        \cup Range(date_list(cols))
        calls == stats_calls(dataset, cols, t)
        result == [DataProfileStats EXCEPT
                     !.num_features_stats =
                         Some(stats_dict(dataset, cols.num_feature_names, "num")),
                     !.cat_features_stats =
                         Some(stats_dict(dataset, cols.cat_feature_names, "cat")),
                     !.datetime_features_stats =
                         Some(stats_dict(dataset, date_list(cols), "datetime"))]
    IN  IF ~(features \subseteq DOMAIN dataset)
        THEN Raised("KeyError", DataProfileStats)
        ELSE IF \E c \in calls : get_features_stats(dataset[c[1]], c[2]).raised # ""
        THEN Raised("IndexError", DataProfileStats)
        ELSE IF target_name # None /\ target_name[1] \in DOMAIN dataset
        THEN Returned([result EXCEPT !.target_stats =
                 Some(stats_dict(dataset, <<target_name[1]>>, target_feature_type(t)))])
        ELSE Returned(result)

(***************************************************************************)
(* The accessors of DataProfileStats.                                      *)
(***************************************************************************)
getitem_order_mut ==
    <<"num_features_stats", "cat_features_stats", "datetime_features_stats",
      "target_stats">>
\* Lines 119-124: the buckets __getitem__ goes through, in order.
getitem_order ==
    <<"target_stats", "datetime_features_stats", "cat_features_stats",
      "num_features_stats">>

\* Lines 107-112: the buckets get_all_features goes through, in order.
get_all_order ==
    <<"target_stats", "datetime_features_stats", "cat_features_stats",
      "num_features_stats">>

\* dict.update: the entries of features replace those of result.
dict_update(result, features) ==
    [k \in DOMAIN result \cup DOMAIN features |->
        IF k \in DOMAIN features THEN features[k] ELSE result[k]]

RECURSIVE update_from(_, _, _)
update_from(p, order, result) ==
    IF order = <<>> THEN result
    ELSE update_from(p, Tail(order),
                     IF p[Head(order)] # None
                     THEN dict_update(result, p[Head(order)][1])
                     ELSE result)

\* DataProfileStats.get_all_features()
get_all_features(p) == update_from(p, get_all_order, <<>>)

Found(r) == [raised |-> "", value |-> Some(r)]
NotFound == [raised |-> "KeyError", value |-> None]

RECURSIVE getitem_from(_, _, _)
getitem_from(p, order, name) ==
    IF order = <<>> THEN NotFound
    ELSE IF p[Head(order)] # None /\ name \in DOMAIN p[Head(order)][1]
    THEN Found(p[Head(order)][1][name])
    ELSE getitem_from(p, Tail(order), name)

\* DataProfileStats.__getitem__(item): the record, or KeyError(item).
getitem(p, name) == getitem_from(p, getitem_order, name)

(***************************************************************************)
(* calculate: the drift counts of the categorical features.                *)
(***************************************************************************)
\* An element of set(series.unique()).  Python's set takes two elements for
\* the same one when they are the same object or compare equal.  Ordinary
\* values compare equal by value.  A NaN compares unequal to every NaN, so
\* two missing markers are one element only if they are the same object:
\* obj names the object unique() yields for the missing marker of a column
\* (the np.nan or None the object column holds, or a float boxed anew when
\* the array of a float column is iterated).
py_element(v, obj) == IF isnull(v) THEN <<"nan", obj>> ELSE <<"val", v>>

py_set(series, obj) == {py_element(series[i], obj) : i \in DOMAIN series}

\* Series.hasnans
hasnans(series) == \E i \in DOMAIN series : isnull(series[i])

\* Lines 196-209: the two counts of one categorical feature.
drift_counts(ref_data, cur_data, objs, feature_name) ==
    LET current_values_set == py_set(cur_data[feature_name], objs.current)
        reference_values_set ==
            IF feature_name \in DOMAIN ref_data
            THEN py_set(ref_data[feature_name], objs.reference)
            ELSE {}
        new_in_current == Cardinality(current_values_set \ reference_values_set)
        unused_in_current == Cardinality(reference_values_set \ current_values_set)
    IN  IF hasnans(cur_data[feature_name]) /\ hasnans(ref_data[feature_name])
        THEN [new |-> new_in_current - 1, unused |-> unused_in_current - 1]
        ELSE [new |-> new_in_current, unused |-> unused_in_current]

\* The record with the two counts written on it (lines 211-212).
with_drift(r, counts) ==
    [r EXCEPT !.new_in_current_values_count = Some(counts.new),
              !.unused_in_current_values_count = Some(counts.unused)]

\* The categorical bucket with the counts of every feature written.
drift_bucket(bucket, ref_data, cur_data, objs) ==
    [name \in DOMAIN bucket |->
        with_drift(bucket[name], drift_counts(ref_data, cur_data, objs, name))]

annotate_mut(ref_stats, cur_stats, ref_data, cur_data, objs) ==
    [reference |-> ref_stats,
     current |-> [cur_stats EXCEPT !.cat_features_stats =
         Some(drift_bucket(cur_stats.cat_features_stats[1], ref_data, cur_data, objs))]]
\* Lines 192-212: the loop writes on the records of the reference profile's
\* categorical bucket, in place; the current profile is left as computed.
annotate(ref_stats, cur_stats, ref_data, cur_data, objs) ==
    [reference |->
        IF ref_stats.cat_features_stats # None
        THEN [ref_stats EXCEPT !.cat_features_stats =
                 Some(drift_bucket(ref_stats.cat_features_stats[1],
                                   ref_data, cur_data, objs))]
        ELSE ref_stats,
     current |-> cur_stats]

\* DataProfileAnalyzerResults
AnalyzerResults(cols, ref_stats, cur_stats) ==
    [columns |-> cols,
     reference_features_stats |-> ref_stats,
     current_features_stats |-> cur_stats]

\* calculate(reference_data, current_data, column_mapping), columns being
\* process_columns(reference_data, column_mapping).
calculate(ref_data, cur_data, cols, t, objs) ==
    LET ref == calculate_stats(ref_data, cols, t)
    IN  IF ref.raised # "" THEN Raised(ref.raised, None)
        ELSE IF cur_data # None
        THEN LET cur == calculate_stats(cur_data[1], cols, t)
             IN  IF cur.raised # "" THEN Raised(cur.raised, None)
                 ELSE LET both == annotate(ref.value, cur.value,
                                           ref_data, cur_data[1], objs)
                      IN  Returned(Some(AnalyzerResults(cols, both.reference,
                                                        Some(both.current))))
        ELSE Returned(Some(AnalyzerResults(cols, ref.value, None)))

(***************************************************************************)
(* Instances of _get_features_stats: one column of at most MaxLen rows of  *)
(* a feature type, and the call on it.                                     *)
(***************************************************************************)
ColumnValues(ft) ==
    IF ft = "num" THEN {NaN, PosInf, NegInf} \cup (1..MaxValue)
    ELSE {NaN} \cup (1..MaxValue)

NoDataset == <<>>
NoColumns ==
    [num_feature_names |-> <<>>, cat_feature_names |-> <<>>,
     datetime_feature_names |-> <<>>,
     utility_columns |-> [date |-> None, target |-> None]]

StatsIdle ==
    /\ feature = <<>>
    /\ feature_type = "num"
    /\ stats = None

CalcIdle ==
    /\ reference_data = NoDataset
    /\ current_data = None
    /\ nan_object = [reference |-> 0, current |-> 0]
    /\ columns = NoColumns
    /\ task = None
    /\ results = None

LookupIdle ==
    /\ profile = DataProfileStats
    /\ item = ""
    /\ got = None
    /\ all_features = None

calcVars == <<reference_data, current_data, nan_object, columns, task, results>>
lookupVars == <<profile, item, got, all_features>>

InitStats ==
    /\ pc = "input"
    /\ feature_type \in FeatureTypes
    /\ feature \in SeqsUpTo(ColumnValues(feature_type), MaxLen)
    /\ stats = None
    /\ CalcIdle
    /\ LookupIdle

\* The call _get_features_stats(feature, feature_type).
GetFeaturesStats ==
    /\ pc = "input"
    /\ stats' = Some(get_features_stats(feature, feature_type))
    /\ pc' = "done"
    /\ UNCHANGED <<feature, feature_type, calcVars, lookupVars>>

NextStats == GetFeaturesStats

SpecStats == InitStats /\ [][NextStats]_vars

(***************************************************************************)
(* Properties of _get_features_stats (checked under SpecStats).            *)
(***************************************************************************)
StatsDone == pc = "done" /\ stats # None
Outcome == stats[1]
Record == stats[1].value
AllMissing(s) == \A i \in DOMAIN s : isnull(s[i])

\* C3 as stated: for every computed record, of every feature type and for
\* every column including a zero-row column, missing_count is a number and
\* count + missing_count equals the number of rows.
C3_CountPlusMissingEveryColumn ==
    StatsDone =>
        /\ Record.missing_count # None
        /\ Record.count + Record.missing_count[1] = Len(feature)

\* C3 amended: for every column with at least one row, count is the number
\* of non-missing values (infinities included) and count + missing_count
\* equals the number of rows; for a zero-row column count is 0 and
\* missing_count is unset.
C3_CountPlusMissing ==
    StatsDone =>
        /\ Outcome.raised = ""
        /\ Record.count = Cardinality({i \in DOMAIN feature : ~isnull(feature[i])})
        /\ Len(feature) > 0 =>
              /\ Record.missing_count # None
              /\ Record.count + Record.missing_count[1] = Len(feature)
        /\ Len(feature) = 0 =>
              /\ Record.count = 0
              /\ Record.missing_count = None

C3_Witness ==
    /\ StatsDone
    /\ feature_type = "num"
    /\ Len(feature) = 3
    /\ PosInf \in Range(feature)
    /\ NaN \in Range(feature)
    /\ Record.count = 2
    /\ Record.missing_count = Some(1)

\* C4 as stated: for every feature type and every column with count > 0, if
\* the first entry of the frequency table is the missing marker then
\* most_common_not_null_value and its fraction are set from the second
\* entry, which is a non-missing value; otherwise both are unset.
C4_NullFallback ==
    (StatsDone /\ Outcome.raised = "" /\ Record.count > 0) =>
        LET table == value_counts(feature)
        IN  IF isnull(table[1][1])
            THEN /\ Len(table) >= 2
                 /\ ~isnull(table[2][1])
                 /\ Record.most_common_not_null_value = Some(Val(table[2][1]))
                 /\ Record.most_common_not_null_value_fraction =
                        Some(Round2(table[2][2], Len(feature)))
            ELSE /\ Record.most_common_not_null_value = None
                 /\ Record.most_common_not_null_value_fraction = None

\* C5: _get_features_stats returns a record for every feature type and
\* every column, and the second entry of the frequency table is read only
\* when the table has at least two entries.
C5_Total ==
    StatsDone =>
        /\ Outcome.raised = ""
        /\ Record.feature_type = feature_type
        /\ Record.most_common_not_null_value # None =>
               Len(value_counts(feature)) >= 2

C5_Witness ==
    /\ StatsDone
    /\ Outcome.raised = ""
    /\ Record.count > 0
    /\ isnull(value_counts(feature)[1][1])
    /\ Record.most_common_not_null_value # None

\* C6: a record with count = 0 has unique, unique_fraction, the most common
\* value fields, min, max, mean, std and the percentiles unset; a zero-row
\* column gives the default record (count 0, everything but feature_type
\* unset); a column with rows that are all missing has missing_count equal
\* to the row count, missing_fraction 1 and, if numeric, infinite_count 0.
C6_EmptyGuards ==
    StatsDone =>
        /\ Record.count = 0 =>
              /\ Record.unique = None
              /\ Record.unique_fraction = None
              /\ Record.most_common_value = None
              /\ Record.most_common_value_fraction = None
              /\ Record.most_common_not_null_value = None
              /\ Record.most_common_not_null_value_fraction = None
              /\ Record.min = None
              /\ Record.max = None
              /\ Record.mean = None
              /\ Record.std = None
              /\ Record.percentile_25 = None
              /\ Record.percentile_50 = None
              /\ Record.percentile_75 = None
        /\ Len(feature) = 0 => Record = FeaturesProfileStats(feature_type)
        /\ (Len(feature) > 0 /\ AllMissing(feature)) =>
              /\ Record.count = 0
              /\ Record.missing_count = Some(Len(feature))
              /\ Record.missing_fraction = Some(100)
              /\ feature_type = "num" => Record.infinite_count = Some(0)

C6_Witness ==
    /\ StatsDone
    /\ feature_type = "num"
    /\ Len(feature) = 2
    /\ AllMissing(feature)
    /\ Record.count = 0
    /\ Record.missing_fraction = Some(100)

(***************************************************************************)
(* Instances of calculate for the drift counts: one categorical feature    *)
(* "c" of at most DriftRows rows in the reference and the current dataset. *)
(***************************************************************************)
DriftColumns ==
    [NoColumns EXCEPT !.cat_feature_names = <<"c">>]

DriftDatasets ==
    {[name \in {"c"} |-> col] : col \in SeqsUpTo({NaN} \cup (1..DriftValues), DriftRows)}

InitDrift ==
    /\ pc = "input"
    /\ columns = DriftColumns
    /\ task = None
    /\ reference_data \in DriftDatasets
    /\ current_data \in {None} \cup {Some(d) : d \in DriftDatasets}
    /\ nan_object \in [reference : {0}, current : {0, 1}]
    /\ results = None
    /\ StatsIdle
    /\ LookupIdle

\* The call calculate(reference_data, current_data, column_mapping).
Calculate ==
    /\ pc = "input"
    /\ results' = Some(calculate(reference_data, current_data, columns, task, nan_object))
    /\ pc' = "done"
    /\ UNCHANGED <<feature, feature_type, stats, reference_data, current_data,
                   nan_object, columns, task, lookupVars>>

NextCalc == Calculate

SpecDrift == InitDrift /\ [][NextCalc]_vars

(***************************************************************************)
(* Properties of the drift counts (checked under SpecDrift).               *)
(***************************************************************************)
CalcDone == pc = "done" /\ results # None
CalcReturned == CalcDone /\ results[1].raised = ""
Reference == results[1].value[1].reference_features_stats
Current == results[1].value[1].current_features_stats

NonMissing(series) == {series[i] : i \in DOMAIN series} \ {NaN}

\* C1: after calculate() with a current dataset, both drift counts of every
\* categorical feature of the reference profile are >= 0.
C1_DriftCountsNonNegative ==
    (CalcReturned /\ current_data # None) =>
        \A name \in DOMAIN Reference.cat_features_stats[1] :
            LET r == Reference.cat_features_stats[1][name]
            IN  /\ r.new_in_current_values_count # None
                /\ r.unused_in_current_values_count # None
                /\ r.new_in_current_values_count[1] >= 0
                /\ r.unused_in_current_values_count[1] >= 0

\* C2: the missing marker is a shared value of the drift diff: after
\* calculate() with a current dataset, new_in_current_values_count is the
\* number of distinct non-missing values of the current column that the
\* reference column lacks, plus 1 exactly when the current column has a
\* missing value and the reference column has none;
\* unused_in_current_values_count is the same with the two columns swapped.
C2_MissingMarkerShared ==
    (CalcReturned /\ current_data # None) =>
        \A name \in DOMAIN Reference.cat_features_stats[1] :
            LET r == Reference.cat_features_stats[1][name]
                ref == reference_data[name]
                cur == current_data[1][name]
                extra(a, b) == IF hasnans(a) /\ ~hasnans(b) THEN 1 ELSE 0
            IN  /\ r.new_in_current_values_count =
                       Some(Cardinality(NonMissing(cur) \ NonMissing(ref)) + extra(cur, ref))
                /\ r.unused_in_current_values_count =
                       Some(Cardinality(NonMissing(ref) \ NonMissing(cur)) + extra(ref, cur))

(***************************************************************************)
(* Instances of calculate for the profiler: datasets of at most            *)
(* ProfileRows rows, drawn from three sample rows, over the columns "n"    *)
(* (numeric), "c" (categorical), "d" (datetime), "dt" (the date column)    *)
(* and "t" (the target), with and without the target column; every         *)
(* declaration of the datetime features, the date, the target and the task.*)
(***************************************************************************)
ProfileRowSet ==
    {[n |-> 1, c |-> 1, d |-> 1, dt |-> 1, t |-> 1],
     [n |-> NaN, c |-> NaN, d |-> NaN, dt |-> 2, t |-> 2],
     [n |-> PosInf, c |-> 2, d |-> 2, dt |-> NaN, t |-> NaN]}

FeatureColumns == {"n", "c", "d", "dt"}

DataFrame(rows, names) ==
    [name \in names |-> [i \in DOMAIN rows |-> rows[i][name]]]

ProfileDatasets ==
    {DataFrame(rows, names) :
        rows \in SeqsUpTo(ProfileRowSet, ProfileRows),
        names \in {FeatureColumns, FeatureColumns \cup {"t"}}}

ProfileColumns ==
    {[num_feature_names |-> <<"n">>, cat_feature_names |-> <<"c">>,
      datetime_feature_names |-> dn,
      utility_columns |-> [date |-> dd, target |-> tt]] :
        dn \in {<<>>, <<"d">>}, dd \in {None, Some("dt")}, tt \in {None, Some("t")}}

Tasks == {None, Some("classification"), Some("regression")}

InitProfile ==
    /\ pc = "input"
    /\ columns \in ProfileColumns
    /\ task \in Tasks
    /\ reference_data \in ProfileDatasets
    /\ current_data \in {None} \cup {Some(d) : d \in ProfileDatasets}
    /\ nan_object \in [reference : {0}, current : {0, 1}]
    /\ results = None
    /\ StatsIdle
    /\ LookupIdle

SpecProfile == InitProfile /\ [][NextCalc]_vars

(***************************************************************************)
(* Properties of calculate and _calculate_stats (checked under SpecProfile)*)
(***************************************************************************)
Buckets == {"target_stats", "datetime_features_stats", "cat_features_stats",
            "num_features_stats"}

\* The records of a profile, each with the bucket that holds it.
RecordsOf(p) ==
    UNION {IF p[b] = None THEN {}
           ELSE {[bucket |-> b, name |-> name, record |-> p[b][1][name]] :
                    name \in DOMAIN p[b][1]} : b \in Buckets}

DriftSet(r) ==
    /\ r.new_in_current_values_count # None
    /\ r.unused_in_current_values_count # None

DriftUnset(r) ==
    /\ r.new_in_current_values_count = None
    /\ r.unused_in_current_values_count = None

\* C7: after calculate(), the two drift fields are set on a record exactly
\* when a current dataset was supplied and the record is in the categorical
\* bucket of the reference profile; they are unset on every record of the
\* current profile and on every other record of the reference profile; the
\* current profile is present exactly when a current dataset was supplied.
C7_DriftFieldsWherePromised ==
    CalcDone =>
        /\ results[1].raised = ""
        /\ Current # None <=> current_data # None
        /\ \A e \in RecordsOf(Reference) :
              IF current_data # None /\ e.bucket = "cat_features_stats"
              THEN DriftSet(e.record)
              ELSE DriftUnset(e.record)
        /\ Current # None => \A e \in RecordsOf(Current[1]) : DriftUnset(e.record)

C7_Witness ==
    /\ CalcReturned
    /\ current_data # None
    /\ task = Some("classification")
    /\ Reference.target_stats # None
    /\ Reference.target_stats[1]["t"].feature_type = "cat"
    /\ DriftUnset(Reference.target_stats[1]["t"])
    /\ DriftSet(Reference.cat_features_stats[1]["c"])
    /\ DriftUnset(Current[1].cat_features_stats[1]["c"])

\* The target bucket _calculate_stats is to give for a dataset.
TargetAsDeclared(p, dataset) ==
    IF columns.utility_columns.target # None
       /\ columns.utility_columns.target[1] \in DOMAIN dataset
    THEN /\ p.target_stats # None
         /\ DOMAIN p.target_stats[1] = {columns.utility_columns.target[1]}
         /\ p.target_stats[1][columns.utility_columns.target[1]].feature_type = "cat"
                <=> task = Some("classification")
         /\ p.target_stats[1][columns.utility_columns.target[1]].feature_type = "num"
                <=> task # Some("classification")
    ELSE p.target_stats = None

\* C8: when a target column is declared and present in the dataset, the
\* target bucket of its profile holds exactly one record, for the target,
\* categorical iff task = "classification" and numeric for every other
\* task; when no target is declared or the dataset lacks the column, the
\* bucket is absent and no error is raised.
C8_TargetProfiling ==
    CalcDone =>
        /\ results[1].raised = ""
        /\ TargetAsDeclared(Reference, reference_data)
        /\ Current # None => TargetAsDeclared(Current[1], current_data[1])

C8_Witness ==
    /\ CalcReturned
    /\ task = None
    /\ columns.utility_columns.target = Some("t")
    /\ "t" \in DOMAIN reference_data
    /\ Reference.target_stats[1]["t"].feature_type = "num"
    /\ current_data # None
    /\ "t" \notin DOMAIN current_data[1]
    /\ Current[1].target_stats = None

(***************************************************************************)
(* Instances of the accessors: every DataProfileStats whose buckets are    *)
(* absent or hold records for some of the names "a", "b"; lookups of "a",  *)
(* "b" and of "z", which no bucket holds.                                  *)
(***************************************************************************)
LookupNames == {"a", "b"}
LookupItems == LookupNames \cup {"z"}
LookupRecords == {FeaturesProfileStats("num"), FeaturesProfileStats("cat")}

LookupBuckets ==
    {None} \cup {Some(d) : d \in UNION {[S -> LookupRecords] : S \in SUBSET LookupNames}}

InitLookup ==
    /\ pc = "input"
    /\ profile \in [num_features_stats : LookupBuckets,
                    cat_features_stats : LookupBuckets,
                    datetime_features_stats : LookupBuckets,
                    target_stats : LookupBuckets]
    /\ item = ""
    /\ got = None
    /\ all_features = None
    /\ StatsIdle
    /\ CalcIdle

\* profile[name]
GetItem(name) ==
    /\ item' = name
    /\ got' = Some(getitem(profile, name))
    /\ UNCHANGED <<pc, feature, feature_type, stats, calcVars, profile, all_features>>

\* profile.get_all_features()
GetAllFeatures ==
    /\ all_features' = Some(get_all_features(profile))
    /\ UNCHANGED <<pc, feature, feature_type, stats, calcVars, profile, item, got>>

NextLookup ==
    \/ \E name \in LookupItems : GetItem(name)
    \/ GetAllFeatures

SpecLookup == InitLookup /\ [][NextLookup]_vars

(***************************************************************************)
(* Properties of the accessors (checked under SpecLookup).                 *)
(***************************************************************************)
Holds(b, name) == profile[b] # None /\ name \in DOMAIN profile[b][1]

\* What a lookup by name is to give: the record of the first bucket, in
\* the order target, datetime, categorical, numeric, that holds the name.
FirstByPriority(name) ==
    IF Holds("target_stats", name) THEN Found(profile.target_stats[1][name])
    ELSE IF Holds("datetime_features_stats", name)
    THEN Found(profile.datetime_features_stats[1][name])
    ELSE IF Holds("cat_features_stats", name)
    THEN Found(profile.cat_features_stats[1][name])
    ELSE IF Holds("num_features_stats", name)
    THEN Found(profile.num_features_stats[1][name])
    ELSE NotFound

\* C9: lookup by name returns the record of the first bucket, in the order
\* target, datetime, categorical, numeric (absent buckets skipped), that
\* holds the name; it fails with KeyError iff no present bucket holds the
\* name; and it leaves the profile unchanged.
C9_LookupByPriority ==
    /\ [](got # None =>
            /\ got[1] = FirstByPriority(item)
            /\ got[1].raised = "KeyError" <=> \A b \in Buckets : ~Holds(b, item))
    /\ [][profile' = profile]_vars

C9_Witness ==
    /\ got # None
    /\ item = "a"
    /\ profile.target_stats = None
    /\ Holds("datetime_features_stats", "a")
    /\ Holds("num_features_stats", "a")
    /\ profile.datetime_features_stats[1]["a"] # profile.num_features_stats[1]["a"]
    /\ got[1] = Found(profile.datetime_features_stats[1]["a"])

\* C10: for every DataProfileStats the keys of get_all_features() are the
\* names whose lookup succeeds, and get_all_features()[name] is the record
\* the lookup of name returns.
C10_FlatteningAgreesWithLookup ==
    all_features # None =>
        \A name \in LookupItems :
            /\ name \in DOMAIN all_features[1] <=> getitem(profile, name).raised = ""
            /\ name \in DOMAIN all_features[1] =>
                   getitem(profile, name) = Found(all_features[1][name])

=============================================================================
